---- MODULE Spec2Model ----
(***************************************************************************)
(* A model of the ai-toolbox web front-end:                                *)
(*   - services/appApi.ts: compareVersions and checkForUpdates;            *)
(*   - app/providers.tsx: the start-up update-check effect;                *)
(*   - components/common/FetchModelsModal: the fetch-models modal.         *)
(* Strings are sequences of one-character strings, so that split,          *)
(* replace, endsWith, toLowerCase and includes are computed, not assumed.  *)
(***************************************************************************)
EXTENDS Integers, Sequences, FiniteSets, TLC

(***************************************************************************)
(* Bounds of the model.                                                    *)
(***************************************************************************)
\* Longest dotted version (in segments) drawn for a version string.
MaxSegs == 3
\* Longest dotted version (in segments) drawn for the three-way ordering check.
MaxOrdSegs == 2
\* Longest dotted version (in segments) drawn for the installed version.
MaxCurSegs == 2

(***************************************************************************)
(* JavaScript strings and numbers, as far as the code uses them.           *)
(***************************************************************************)
Digits == {"0", "1", "2", "3", "4", "5", "6", "7", "8", "9"}

DigitVal(c) ==
  CASE c = "0" -> 0 [] c = "1" -> 1 [] c = "2" -> 2 [] c = "3" -> 3
    [] c = "4" -> 4 [] c = "5" -> 5 [] c = "6" -> 6 [] c = "7" -> 7
    [] c = "8" -> 8 [] c = "9" -> 9

\* String.prototype.split('.'): the pieces between the dots; "" gives [""].
RECURSIVE Split(_)
Split(s) ==
  IF \A i \in 1..Len(s) : s[i] # "."
  THEN <<s>>
  ELSE LET i == CHOOSE k \in 1..Len(s) :
                    s[k] = "." /\ \A j \in 1..(k - 1) : s[j] # "."
       IN <<SubSeq(s, 1, i - 1)>> \o Split(SubSeq(s, i + 1, Len(s)))

IsDigits(s) == Len(s) > 0 /\ \A i \in 1..Len(s) : s[i] \in Digits

RECURSIVE DecVal(_)
DecVal(s) ==
  IF s = <<>> THEN 0
  ELSE 10 * DecVal(SubSeq(s, 1, Len(s) - 1)) + DigitVal(s[Len(s)])

\* A JavaScript number: NaN, or an integer value.
NaN == [nan |-> TRUE, val |-> 0]
Num(n) == [nan |-> FALSE, val |-> n]

\* Number(segment) on the model's alphabet (digits, '-', letters, no blanks,
\* no '+', exponent or radix prefix): "" is 0, a decimal literal (optionally
\* negated) is its value, everything else is NaN.
Number(s) ==
  IF s = <<>> THEN Num(0)
  ELSE IF IsDigits(s) THEN Num(DecVal(s))
  ELSE IF Head(s) = "-" /\ IsDigits(Tail(s)) THEN Num(0 - DecVal(Tail(s)))
  ELSE NaN

\* The relational operators on numbers: every comparison with NaN is false.
JsGt(a, b) == ~a.nan /\ ~b.nan /\ a.val > b.val
JsLt(a, b) == ~a.nan /\ ~b.nan /\ a.val < b.val

Max(a, b) == IF a > b THEN a ELSE b

\* Values that may be undefined, null, a string or a number.
Undef == [t |-> "undefined"]
Null == [t |-> "null"]
Str(s) == [t |-> "string", s |-> s]
NumVal(n) == [t |-> "number", n |-> n]

(***************************************************************************)
(* appApi.ts: compareVersions.                                             *)
(***************************************************************************)
\* v.split('.').map(Number)
Parts(v) == LET segs == Split(v) IN [i \in 1..Len(segs) |-> Number(segs[i])]

\* A slip: ?? in place of ||, which lets NaN through.
OrZero_nullish(parts, i) == IF i > Len(parts) THEN Num(0) ELSE parts[i]

\* parts[i] || 0: undefined (past the end), NaN and 0 all give 0.
OrZero(parts, i) ==
  IF i > Len(parts) \/ parts[i].nan \/ parts[i].val = 0 THEN Num(0) ELSE parts[i]

\* The for loop of compareVersions from index i (1-based here) to maxLength.
RECURSIVE CompareFrom(_, _, _, _)
CompareFrom(parts1, parts2, i, maxLength) ==
  IF i > maxLength THEN 0
  ELSE LET num1 == OrZero(parts1, i)
           num2 == OrZero(parts2, i)
       IN IF JsGt(num1, num2) THEN 1
          ELSE IF JsLt(num1, num2) THEN -1
          ELSE CompareFrom(parts1, parts2, i + 1, maxLength)

\* A slip: the loop bound taken as the shorter length.
compareVersions_minLength(v1, v2) ==
  LET parts1 == Parts(v1)
      parts2 == Parts(v2)
  IN CompareFrom(parts1, parts2, 1,
                 IF Len(parts1) < Len(parts2) THEN Len(parts1) ELSE Len(parts2))

compareVersions(v1, v2) ==
  LET parts1 == Parts(v1)
      parts2 == Parts(v2)
  IN CompareFrom(parts1, parts2, 1, Max(Len(parts1), Len(parts2)))

(***************************************************************************)
(* Version strings drawn as inputs.                                        *)
(***************************************************************************)
RECURSIVE Join(_)
Join(segs) ==
  IF Len(segs) = 1 THEN segs[1]
  ELSE segs[1] \o <<".">> \o Join(Tail(segs))

Dotted(tokens, n) == UNION { { Join(t) : t \in [1..k -> tokens] } : k \in 1..n }

NumTokens == { <<"0">>, <<"1">>, <<"2">>, <<"1", "0">> }

\* Strings that are not dotted decimal versions.
Malformed ==
  { <<>>, <<".">>, <<"a">>, <<"1", ".", "a">>, <<"a", ".", "2">>,
    <<"1", ".", ".", "2">>, <<"-", "1">>, <<"0", ".", "-", "1">>,
    <<"1", "-", "a", ".", "2">>, <<"v", "1">> }

Versions == Dotted(NumTokens, MaxSegs) \cup Malformed

\* The versions of the specification's example (remote 2.0.0, installed 1.9.9).
Examples ==
  { <<"1", ".", "9", ".", "9">>, <<"2", ".", "0", ".", "0">> }

\* What getVersion() may give, and what the served descriptor may carry.
CurVersions == Dotted(NumTokens, MaxCurSegs) \cup Malformed \cup Examples
RemoteVersions == Versions \cup Examples

OrdVersions == Dotted({ <<"0">>, <<"1">>, <<"2">> }, MaxOrdSegs) \cup Malformed

(***************************************************************************)
(* FetchModelsModal: the derived values of a render.                       *)
(***************************************************************************)
\* String.prototype.toLowerCase, on the letters the model uses.
LowerChar(c) ==
  CASE c = "A" -> "a" [] c = "E" -> "e" [] c = "F" -> "f" [] c = "G" -> "g"
    [] c = "I" -> "i" [] c = "N" -> "n" [] c = "O" -> "o" [] c = "P" -> "p"
    [] c = "T" -> "t" [] OTHER -> c

ToLowerCase(s) == [i \in 1..Len(s) |-> LowerChar(s[i])]

\* String.prototype.includes: sub occurs in s at some offset.
StrIncludes(s, sub) ==
  \E k \in 0..(Len(s) - Len(sub)) :
    \A j \in 1..Len(sub) : s[k + j] = sub[j]

\* String.prototype.endsWith
EndsWith(s, suffix) ==
  /\ Len(suffix) <= Len(s)
  /\ SubSeq(s, Len(s) - Len(suffix) + 1, Len(s)) = suffix

\* s.slice(0, -n)
DropLast(s, n) == SubSeq(s, 1, Len(s) - n)

\* Array.prototype.includes on an array of ids.
ArrayIncludes(arr, x) == \E i \in 1..Len(arr) : arr[i] = x

\* An optional string field (name, ownedBy, apiKey) is truthy when it is a
\* non-empty string.
Truthy(v) == v.t = "string" /\ v.s # <<>>

\* A slip: the search text compared as typed, not lower-cased.
ModelMatches_caseSensitive(m, searchText) ==
  \/ StrIncludes(ToLowerCase(m.id), searchText)
  \/ (Truthy(m.name) /\ StrIncludes(ToLowerCase(m.name.s), searchText))
  \/ (Truthy(m.ownedBy) /\ StrIncludes(ToLowerCase(m.ownedBy.s), searchText))

\* The predicate of models.filter in filteredModels.
ModelMatches(m, searchText) ==
  LET lowerSearch == ToLowerCase(searchText)
  IN \/ StrIncludes(ToLowerCase(m.id), lowerSearch)
     \/ (Truthy(m.name) /\ StrIncludes(ToLowerCase(m.name.s), lowerSearch))
     \/ (Truthy(m.ownedBy) /\ StrIncludes(ToLowerCase(m.ownedBy.s), lowerSearch))

\* filteredModels: the models the table shows for a search text.
filteredModels(modelList, searchText) ==
  IF searchText = <<>> THEN modelList
  ELSE SelectSeq(modelList, LAMBDA m : ModelMatches(m, searchText))

\* baseUrl.replace(/\/$/, '')
StripTrailingSlash(url) == IF EndsWith(url, <<"/">>) THEN DropLast(url, 1) ELSE url

\* A slip: the trailing slash kept.
BaseStripped_keepSlash(url) ==
  IF EndsWith(url, <<"/", "v", "1", "b", "e", "t", "a">>) THEN DropLast(url, 7)
  ELSE IF EndsWith(url, <<"/", "v", "1">>) THEN DropLast(url, 3)
  ELSE url

\* baseStripped: the base without one trailing slash and then without a
\* trailing /v1beta or /v1.
BaseStripped(url) ==
  LET base == StripTrailingSlash(url)
  IN IF EndsWith(base, <<"/", "v", "1", "b", "e", "t", "a">>) THEN DropLast(base, 7)
     ELSE IF EndsWith(base, <<"/", "v", "1">>) THEN DropLast(base, 3)
     ELSE base

\* calculatedUrl: the default model-listing URL.
calculatedUrl(url, type, sdk, key) ==
  LET baseStripped == BaseStripped(url)
      v1models == <<"/", "v", "1", "/", "m", "o", "d", "e", "l", "s">>
      v1betamodels ==
        <<"/", "v", "1", "b", "e", "t", "a", "/", "m", "o", "d", "e", "l", "s">>
  IN IF type = "native"
     THEN IF sdk = "@ai-sdk/google"
          THEN IF Truthy(key)
               THEN baseStripped \o v1betamodels \o <<"?", "k", "e", "y", "=">> \o key.s
               ELSE baseStripped \o v1betamodels
          ELSE IF sdk = "@ai-sdk/anthropic"
          THEN baseStripped \o v1models
          ELSE baseStripped \o v1models
     ELSE baseStripped \o v1models

\* supportsNative
supportsNative(sdk) == sdk = "@ai-sdk/google" \/ sdk = "@ai-sdk/anthropic"

\* The initial apiType of useState.
InitialApiType(sdk) ==
  IF sdk = "@ai-sdk/google" \/ sdk = "@ai-sdk/anthropic"
  THEN "native" ELSE "openai_compat"

\* A slip: the membership test inverted.
IsExisting_inverted(existing, id) == ~ArrayIncludes(existing, id)

\* existingModelIds.includes(id): the "already exists" mark of a row and
\* the disabled flag of its checkbox.
IsExisting(existing, id) == ArrayIncludes(existing, id)

\* The rows the table renders: dataSource with each row's mark and
\* checkbox state.
TableRowsOf(modelList, searchText, existing) ==
  LET dataSource == filteredModels(modelList, searchText)
  IN [i \in 1..Len(dataSource) |->
        [id |-> dataSource[i].id,
         isExisting |-> IsExisting(existing, dataSource[i].id),
         disabled |-> IsExisting(existing, dataSource[i].id)]]

\* err instanceof Error ? err.message : String(err), for a rejection that
\* is an Error or a string.
ErrorMessageOf(err) == IF err.t = "Error" THEN err.message ELSE err.s

VARIABLES
  fnArgs,          \* arguments of the function under test (pure-function runs)
  fnRet,           \* its results, <<>> until it is applied
  appInitialized,  \* useAppStore().isInitialized
  updPc,           \* where the start-up checkUpdate() is: idle, getVersion, fetch, json, done
  currentVersion,  \* checkForUpdates: const currentVersion
  updResponse,     \* checkForUpdates: const response (<<>> before the fetch settles)
  updRelease,      \* checkForUpdates: const release (<<>> before the body is parsed)
  updRequests,     \* number of GET requests issued to LATEST_JSON_URL
  cfuOutcome,      \* what checkForUpdates() gave its caller: pending, returned, threw
  notifications,   \* notification.info calls made by the effect
  consoleErrors,   \* console.error calls made by the effect's catch
  unhandled,       \* errors no handler caught (unhandled promise rejections)
  open,            \* FetchModelsModal prop: open
  baseUrl,         \* prop: baseUrl
  apiKey,          \* prop: apiKey (optional)
  sdkType,         \* prop: sdkType
  existingModelIds,\* prop: existingModelIds
  loading,         \* useState: loading
  apiType,         \* useState: apiType
  models,          \* useState: models
  selectedRowKeys, \* useState: selectedRowKeys (as a set of ids)
  error,           \* useState: error (Null or a string)
  fetched,         \* useState: fetched
  customUrl,       \* useState: customUrl
  searchText,      \* useState: searchText
  depOpen,         \* the open the effects last ran with
  depCalc,         \* the calculatedUrl the effects last ran with
  pending,         \* invoke('fetch_provider_models') calls not yet settled
  editedUrl,       \* history: <<u>> when the user typed u since the last reset or open
  lastFetch,       \* history: what the modal held when the latest fetch started
  lastEvent,       \* history: the last step, its input and the calls it made
  cfgOpen,         \* OhMyOpenCodeGlobalConfigModal prop: open
  initialValues,   \* prop: initialValues (optional)
  formValues,      \* the form store: the lsp, experimental and otherFields fields
  cfgLoading,      \* useState: loading
  validRefs,       \* lspJsonValidRef, experimentalJsonValidRef, otherFieldsValidRef
  cfgDeps,         \* the <<open, initialValues>> the effect last ran with
  reportedSinceOpen, \* history: each editor's last report since the modal opened
  reportedSinceInit, \* history: each editor's last report since the effect last ran
  cfgEvent         \* history: the last step of this modal and the calls it made

fnVars == <<fnArgs, fnRet>>

updVars == <<appInitialized, updPc, currentVersion, updResponse, updRelease,
             updRequests, cfuOutcome, notifications, consoleErrors>>

propVars == <<open, baseUrl, apiKey, sdkType, existingModelIds>>

stateVars == <<loading, apiType, models, selectedRowKeys, error, fetched,
               customUrl, searchText>>

modalVars == <<propVars, stateVars, depOpen, depCalc, pending, editedUrl,
               lastFetch>>

cfgVars == <<cfgOpen, initialValues, formValues, cfgLoading, validRefs, cfgDeps,
             reportedSinceOpen, reportedSinceInit, cfgEvent>>

vars == <<fnVars, updVars, unhandled, modalVars, lastEvent, cfgVars>>

\* The function harness at rest (runs that are not about a pure function).
FnIdle == fnArgs = <<>> /\ fnRet = <<>>

\* The update check before the app store is initialised.
UpdInit ==
  /\ appInitialized = FALSE
  /\ updPc = "idle"
  /\ currentVersion = <<>>
  /\ updResponse = <<>>
  /\ updRelease = <<>>
  /\ updRequests = 0
  /\ cfuOutcome = [kind |-> "pending"]
  /\ notifications = <<>>
  /\ consoleErrors = <<>>
  /\ unhandled = <<>>

(***************************************************************************)
(* appApi.ts: checkForUpdates, and providers.tsx: the effect that calls    *)
(* it once the app store is initialised.                                   *)
(***************************************************************************)
GITHUB_URL ==
  <<"h", "t", "t", "p", "s", ":", "/", "/", "g", "i", "t", "h", "u", "b", ".",
    "c", "o", "m", "/", "c", "o", "u", "l", "s", "o", "n", "t", "l", "/", "a",
    "i", "-", "t", "o", "o", "l", "b", "o", "x">>

\* A thrown value: an Error with a name and a message.
Err(name, message) == [name |-> name, message |-> message]

\* A slip: the message without the status text.
HttpErrorMessage_noStatus(statusText) ==
  <<"F", "a", "i", "l", "e", "d", " ", "t", "o", " ", "f", "e", "t", "c", "h",
    " ", "l", "a", "t", "e", "s", "t", ".", "j", "s", "o", "n">>

\* `Failed to fetch latest.json: ${response.statusText}`
HttpErrorMessage(statusText) ==
  <<"F", "a", "i", "l", "e", "d", " ", "t", "o", " ", "f", "e", "t", "c", "h",
    " ", "l", "a", "t", "e", "s", "t", ".", "j", "s", "o", "n", ":", " ">>
  \o statusText

\* s.replace(/^v/, '')
StripLeadingV(s) == IF s # <<>> /\ s[1] = "v" THEN Tail(s) ELSE s

\* A slip: the version taken as it is served.
LatestVersionOf_noStrip(version) ==
  IF version.t = "string" THEN version.s ELSE <<>>

\* release.version?.replace(/^v/, '') || '' for a string, null or missing
\* version (any other value has no replace method: see JsonResolves).
LatestVersionOf(version) ==
  IF version.t = "string" THEN StripLeadingV(version.s) ELSE <<>>

\* A slip: >= in place of >.
HasUpdate_orEqual(latestVersion, current) ==
  compareVersions(latestVersion, current) >= 0

\* compareVersions(latestVersion, currentVersion) > 0
HasUpdate(latestVersion, current) == compareVersions(latestVersion, current) > 0

\* `${GITHUB_URL}/releases/tag/v${latestVersion}`
ReleaseUrlOf(latestVersion) ==
  GITHUB_URL
  \o <<"/", "r", "e", "l", "e", "a", "s", "e", "s", "/", "t", "a", "g", "/", "v">>
  \o latestVersion

\* release.notes || ''
ReleaseNotesOf(notes) == IF notes.t = "string" THEN notes.s ELSE <<>>

\* The effect of providers.tsx once appInitialized turns true: checkUpdate()
\* calls checkForUpdates(), which awaits getVersion().
InitApp ==
  /\ ~appInitialized
  /\ appInitialized' = TRUE
  /\ updPc' = "getVersion"
  /\ UNCHANGED <<currentVersion, updResponse, updRelease, updRequests,
                 cfuOutcome, notifications, consoleErrors, unhandled>>

\* A slip: checkUpdate() without its try/catch.
UpdThrow_uncaught(e) ==
  /\ cfuOutcome' = [kind |-> "threw", error |-> e]
  /\ unhandled' = Append(unhandled, e)
  /\ updPc' = "done"
  /\ UNCHANGED <<appInitialized, notifications, consoleErrors>>

\* checkForUpdates throws e, and the effect's catch logs it.
UpdThrow(e) ==
  /\ cfuOutcome' = [kind |-> "threw", error |-> e]
  /\ consoleErrors' = Append(consoleErrors, e)
  /\ updPc' = "done"
  /\ UNCHANGED <<appInitialized, notifications, unhandled>>

\* getVersion() resolves: the GET of LATEST_JSON_URL is issued.
GetVersionResolves(v) ==
  /\ updPc = "getVersion"
  /\ currentVersion' = v
  /\ updRequests' = updRequests + 1
  /\ updPc' = "fetch"
  /\ UNCHANGED <<appInitialized, updResponse, updRelease, cfuOutcome,
                 notifications, consoleErrors, unhandled>>

\* getVersion() rejects.
GetVersionRejects(e) ==
  /\ updPc = "getVersion"
  /\ UpdThrow(e)
  /\ UNCHANGED <<currentVersion, updResponse, updRelease, updRequests>>

\* fetch() rejects (no response: a network failure).
FetchRejects(e) ==
  /\ updPc = "fetch"
  /\ UpdThrow(e)
  /\ UNCHANGED <<currentVersion, updResponse, updRelease, updRequests>>

\* fetch() resolves with a response: a non-ok one throws, an ok one is read.
FetchResponds(response) ==
  /\ updPc = "fetch"
  /\ updResponse' = <<response>>
  /\ IF ~response.ok
     THEN UpdThrow(Err("Error", HttpErrorMessage(response.statusText)))
     ELSE /\ updPc' = "json"
          /\ UNCHANGED <<appInitialized, cfuOutcome, notifications, consoleErrors,
                         unhandled>>
  /\ UNCHANGED <<currentVersion, updRelease, updRequests>>

\* response.json() rejects (the body is not JSON).
JsonRejects(e) ==
  /\ updPc = "json"
  /\ UpdThrow(e)
  /\ UNCHANGED <<currentVersion, updResponse, updRelease, updRequests>>

\* response.json() resolves with the release descriptor; checkForUpdates
\* returns its UpdateInfo (or throws on a version with no replace method,
\* or on a body that is null), and the effect notifies when hasUpdate.
JsonResolves(release) ==
  /\ updPc = "json"
  /\ updRelease' = <<release>>
  /\ IF release.t # "object"
     THEN UpdThrow(Err("TypeError", <<"n", "u", "l", "l">>))
     ELSE IF release.version.t \notin {"string", "undefined", "null"}
     THEN UpdThrow(Err("TypeError", <<"r", "e", "p", "l", "a", "c", "e">>))
     ELSE LET latestVersion == LatestVersionOf(release.version)
              info == [hasUpdate |-> HasUpdate(latestVersion, currentVersion),
                       currentVersion |-> currentVersion,
                       latestVersion |-> latestVersion,
                       releaseUrl |-> ReleaseUrlOf(latestVersion),
                       releaseNotes |-> ReleaseNotesOf(release.notes)]
          IN /\ cfuOutcome' = [kind |-> "returned", info |-> info]
             /\ notifications' =
                  IF info.hasUpdate
                  THEN Append(notifications,
                              [version |-> info.latestVersion,
                               releaseUrl |-> info.releaseUrl])
                  ELSE notifications
             /\ updPc' = "done"
             /\ UNCHANGED <<appInitialized, consoleErrors, unhandled>>
  /\ UNCHANGED <<currentVersion, updResponse, updRequests>>

(***************************************************************************)
(* FetchModelsModal: the component's state machine.  A step is one event   *)
(* handler (or one settled invoke, or one change of props by the parent)   *)
(* together with the render and the effects that follow it.                *)
(***************************************************************************)
ModalView ==
  [open |-> open, baseUrl |-> baseUrl, apiKey |-> apiKey, sdkType |-> sdkType,
   existingModelIds |-> existingModelIds, loading |-> loading,
   apiType |-> apiType, models |-> models, selectedRowKeys |-> selectedRowKeys,
   error |-> error, fetched |-> fetched, customUrl |-> customUrl,
   searchText |-> searchText]

\* calculatedUrl of a render.
CalcOf(st) == calculatedUrl(st.baseUrl, st.apiType, st.sdkType, st.apiKey)

\* useEffect(() => setCustomUrl(calculatedUrl), [calculatedUrl]), for a
\* render whose calculatedUrl is calc.
UrlEffect(st, calc) ==
  IF calc # depCalc THEN [st EXCEPT !.customUrl = calc] ELSE st

\* useEffect(() => { if (open) { ...reset... } }, [open, calculatedUrl])
ResetEffect(st, calc) ==
  IF (st.open # depOpen \/ calc # depCalc) /\ st.open
  THEN [st EXCEPT !.models = <<>>, !.selectedRowKeys = {}, !.error = Null,
                  !.fetched = FALSE, !.searchText = <<>>, !.customUrl = calc]
  ELSE st

\* The render after a handler left the component as st: the effects whose
\* dependencies changed run, and the result is what the next event sees.
\* (No effect writes an input of calculatedUrl, so one pass settles.)
Commit(st) ==
  \E calc \in {CalcOf(st)} :
  \E final \in {ResetEffect(UrlEffect(st, calc), calc)} :
     /\ open' = final.open
     /\ baseUrl' = final.baseUrl
     /\ apiKey' = final.apiKey
     /\ sdkType' = final.sdkType
     /\ existingModelIds' = final.existingModelIds
     /\ loading' = final.loading
     /\ apiType' = final.apiType
     /\ models' = final.models
     /\ selectedRowKeys' = final.selectedRowKeys
     /\ error' = final.error
     /\ fetched' = final.fetched
     /\ customUrl' = final.customUrl
     /\ searchText' = final.searchText
     /\ depOpen' = final.open
     /\ depCalc' = calc

Event(name, arg, calls) == [name |-> name, arg |-> arg, calls |-> calls]

\* The mounted component, closed, with the props of provider p.
ModalInit(p) ==
  /\ open = FALSE
  /\ baseUrl = p.baseUrl
  /\ apiKey = p.apiKey
  /\ sdkType = p.sdkType
  /\ existingModelIds = p.existingModelIds
  /\ loading = FALSE
  /\ apiType = InitialApiType(p.sdkType)
  /\ models = <<>>
  /\ selectedRowKeys = {}
  /\ error = Null
  /\ fetched = FALSE
  /\ customUrl = calculatedUrl(p.baseUrl, InitialApiType(p.sdkType), p.sdkType, p.apiKey)
  /\ searchText = <<>>
  /\ depOpen = FALSE
  /\ depCalc = calculatedUrl(p.baseUrl, InitialApiType(p.sdkType), p.sdkType, p.apiKey)
  /\ pending = <<>>
  /\ editedUrl = <<>>
  /\ lastFetch = <<>>
  /\ lastEvent = Event("mount", <<>>, <<>>)

\* The history of the latest fetch is kept while its request is in flight
\* and in the state its settling leaves; any later step drops it.
KeepFetchHistory == lastFetch' = IF pending = <<>> THEN <<>> ELSE lastFetch

\* The parent shows the modal.
ParentOpen ==
  /\ ~open
  /\ Commit([ModalView EXCEPT !.open = TRUE])
  /\ editedUrl' = <<>>
  /\ lastFetch' = IF pending = <<>> THEN <<>>
                  ELSE << [lastFetch[1] EXCEPT !.reopened = TRUE] >>
  /\ lastEvent' = Event("ParentOpen", <<>>, <<>>)
  /\ UNCHANGED pending

\* The parent hides the modal (its answer to onCancel, or to onSuccess).
ParentClose ==
  /\ open
  /\ Commit([ModalView EXCEPT !.open = FALSE])
  /\ lastEvent' = Event("ParentClose", <<>>, <<>>)
  /\ KeepFetchHistory
  /\ UNCHANGED <<pending, editedUrl>>

\* The parent renders the modal with the props of another provider.
ParentSetProps(p) ==
  /\ <<p.baseUrl, p.apiKey, p.sdkType, p.existingModelIds>>
       # <<baseUrl, apiKey, sdkType, existingModelIds>>
  /\ Commit([ModalView EXCEPT !.baseUrl = p.baseUrl, !.apiKey = p.apiKey,
                              !.sdkType = p.sdkType,
                              !.existingModelIds = p.existingModelIds])
  /\ lastEvent' = Event("ParentSetProps", <<>>, <<>>)
  /\ KeepFetchHistory
  /\ UNCHANGED <<pending, editedUrl>>

\* Radio.Group onChange: the native radio is offered only when supportsNative.
SetApiType(t) ==
  /\ open
  /\ t # apiType
  /\ t = "openai_compat" \/ (t = "native" /\ supportsNative(sdkType))
  /\ Commit([ModalView EXCEPT !.apiType = t])
  /\ lastEvent' = Event("SetApiType", <<>>, <<>>)
  /\ KeepFetchHistory
  /\ UNCHANGED <<pending, editedUrl>>

\* The URL Input's onChange: the user types u.
EditUrl(u) ==
  /\ open
  /\ u # customUrl
  /\ Commit([ModalView EXCEPT !.customUrl = u])
  /\ editedUrl' = <<u>>
  /\ lastEvent' = Event("EditUrl", <<>>, <<>>)
  /\ KeepFetchHistory
  /\ UNCHANGED pending

\* The reset-to-default button: setCustomUrl(calculatedUrl).
ResetUrl ==
  /\ open
  /\ Commit([ModalView EXCEPT !.customUrl = CalcOf(ModalView)])
  /\ editedUrl' = <<>>
  /\ lastEvent' = Event("ResetUrl", <<>>, <<>>)
  /\ KeepFetchHistory
  /\ UNCHANGED pending

\* The search Input's onChange.
SetSearchText(q) ==
  /\ open
  /\ q # searchText
  /\ Commit([ModalView EXCEPT !.searchText = q])
  /\ lastEvent' = Event("SetSearchText", <<>>, <<>>)
  /\ KeepFetchHistory
  /\ UNCHANGED <<pending, editedUrl>>

\* The request handleFetch passes to invoke.
FetchRequest ==
  [baseUrl |-> baseUrl, apiKey |-> apiKey, apiType |-> apiType,
   sdkType |-> sdkType, customUrl |-> customUrl]

\* A slip: the Fetch button without loading={loading}.
HandleFetch_whileBusy ==
  /\ open
  /\ Commit([ModalView EXCEPT !.loading = TRUE, !.error = Null])
  /\ pending' = Append(pending, FetchRequest)
  /\ lastFetch' = << [models |-> models, fetched |-> fetched,
                      selectedRowKeys |-> selectedRowKeys, reopened |-> FALSE] >>
  /\ lastEvent' = Event("HandleFetch", <<>>, <<>>)
  /\ UNCHANGED editedUrl

\* handleFetch up to its await: the button does not fire while loading.
HandleFetch ==
  /\ open
  /\ ~loading
  /\ Commit([ModalView EXCEPT !.loading = TRUE, !.error = Null])
  /\ pending' = Append(pending, FetchRequest)
  /\ lastFetch' = << [models |-> models, fetched |-> fetched,
                      selectedRowKeys |-> selectedRowKeys, reopened |-> FALSE] >>
  /\ lastEvent' = Event("HandleFetch", <<>>, <<>>)
  /\ UNCHANGED editedUrl

Without(seq, i) == SubSeq(seq, 1, i - 1) \o SubSeq(seq, i + 1, Len(seq))

\* setModels(response.models): the list is stored as it is returned.
Stored(list) == list

\* handleFetch after invoke resolved with response.models = list.
FetchResolves(i, list) ==
  /\ i \in 1..Len(pending)
  /\ Commit([ModalView EXCEPT !.models = Stored(list), !.fetched = TRUE,
                              !.selectedRowKeys = {}, !.loading = FALSE])
  /\ pending' = Without(pending, i)
  /\ lastEvent' = Event("FetchResolves", list,
                        IF Len(list) = 0 THEN <<"message.info">> ELSE <<>>)
  /\ UNCHANGED <<editedUrl, lastFetch>>

\* A slip: handleFetch without its finally.
FetchFails_staysBusy(i, err) ==
  /\ i \in 1..Len(pending)
  /\ Commit([ModalView EXCEPT !.error = Str(ErrorMessageOf(err))])
  /\ pending' = Without(pending, i)
  /\ lastEvent' = Event("FetchFails", err, <<"message.error">>)
  /\ UNCHANGED <<editedUrl, lastFetch>>

\* A slip: a catch that also clears the list.
FetchFails_clearsList(i, err) ==
  /\ i \in 1..Len(pending)
  /\ Commit([ModalView EXCEPT !.error = Str(ErrorMessageOf(err)),
                              !.models = <<>>, !.fetched = FALSE,
                              !.loading = FALSE])
  /\ pending' = Without(pending, i)
  /\ lastEvent' = Event("FetchFails", err, <<"message.error">>)
  /\ UNCHANGED <<editedUrl, lastFetch>>

\* handleFetch after invoke rejected with err: the catch and the finally.
FetchFails(i, err) ==
  /\ i \in 1..Len(pending)
  /\ Commit([ModalView EXCEPT !.error = Str(ErrorMessageOf(err)),
                              !.loading = FALSE])
  /\ pending' = Without(pending, i)
  /\ lastEvent' = Event("FetchFails", err, <<"message.error">>)
  /\ UNCHANGED <<editedUrl, lastFetch>>

\* The Alert's onClose.
CloseErrorAlert ==
  /\ open
  /\ Truthy(error)
  /\ Commit([ModalView EXCEPT !.error = Null])
  /\ lastEvent' = Event("CloseErrorAlert", <<>>, <<>>)
  /\ KeepFetchHistory
  /\ UNCHANGED <<pending, editedUrl>>

\* The rows on screen.
TableRows == TableRowsOf(models, searchText, existingModelIds)

\* A slip: rowSelection without getCheckboxProps.
ToggleRow_anyRow(i) ==
  /\ open
  /\ fetched
  /\ i \in 1..Len(TableRows)
  /\ Commit([ModalView EXCEPT !.selectedRowKeys =
               IF TableRows[i].id \in selectedRowKeys
               THEN selectedRowKeys \ {TableRows[i].id}
               ELSE selectedRowKeys \cup {TableRows[i].id}])
  /\ lastEvent' = Event("ToggleRow", <<>>, <<>>)
  /\ KeepFetchHistory
  /\ UNCHANGED <<pending, editedUrl>>

\* rowSelection.onChange after the user ticks or unticks the checkbox of a
\* row whose checkbox is not disabled.
ToggleRow(i) ==
  /\ open
  /\ fetched
  /\ i \in 1..Len(TableRows)
  /\ ~TableRows[i].disabled
  /\ Commit([ModalView EXCEPT !.selectedRowKeys =
               IF TableRows[i].id \in selectedRowKeys
               THEN selectedRowKeys \ {TableRows[i].id}
               ELSE selectedRowKeys \cup {TableRows[i].id}])
  /\ lastEvent' = Event("ToggleRow", <<>>, <<>>)
  /\ KeepFetchHistory
  /\ UNCHANGED <<pending, editedUrl>>

\* handleConfirm: onSuccess(models.filter(m => selectedRowKeys.includes(m.id)))
HandleConfirm ==
  /\ open
  /\ selectedRowKeys # {}
  /\ lastEvent' = Event("HandleConfirm", <<>>,
                        << [onSuccess |->
                              SelectSeq(models, LAMBDA m : m.id \in selectedRowKeys)] >>)
  /\ KeepFetchHistory
  /\ UNCHANGED <<propVars, stateVars, depOpen, depCalc, pending, editedUrl>>

(***************************************************************************)
(* OhMyOpenCodeGlobalConfigModal: the three JSON editors, their validation *)
(* refs and submit.  A step is one handler (or one change of props by the  *)
(* parent) with the render and the effect that follow it.                  *)
(***************************************************************************)
Editors == { "lsp", "experimental", "otherFields" }

JObj(k) == [t |-> "object", k |-> k]
JArr == [t |-> "array"]
EmptyObject == JObj("{}")

\* typeof value === 'object' && value !== null
TypeofObjectNonNull(value) == value.t \in {"object", "array"}

\* x || {}, for x undefined, null or an object.
OrEmptyObject(x) == IF x.t \in {"undefined", "null"} THEN EmptyObject ELSE x

NoReports == [e \in Editors |-> "none"]

CfgView ==
  [open |-> cfgOpen, initialValues |-> initialValues, formValues |-> formValues,
   validRefs |-> validRefs]

\* useEffect(() => { if (open) { ...set the fields, refs to true... } },
\*           [open, initialValues, form])
InitEffect(st) ==
  IF <<st.open, st.initialValues>> # cfgDeps /\ st.open
  THEN [st EXCEPT
          !.formValues =
             IF st.initialValues.t = "undefined"
             THEN [e \in Editors |-> EmptyObject]
             ELSE [e \in Editors |-> OrEmptyObject(st.initialValues[e])],
          !.validRefs = [e \in Editors |-> TRUE]]
  ELSE st

\* Whether the effect runs in the render that follows st.
EffectRuns(st) == <<st.open, st.initialValues>> # cfgDeps /\ st.open

\* reports is what the history of reports becomes if the effect does not run.
CfgCommit(st, reports) ==
  \E final \in {InitEffect(st)} :
    /\ cfgOpen' = final.open
    /\ initialValues' = final.initialValues
    /\ formValues' = final.formValues
    /\ validRefs' = final.validRefs
    /\ cfgDeps' = <<final.open, final.initialValues>>
    /\ reportedSinceInit' = IF EffectRuns(st) THEN NoReports ELSE reports

CfgEvent(name, calls) == [name |-> name, calls |-> calls]

\* The mounted component, closed, with no initialValues.
CfgInit ==
  /\ cfgOpen = FALSE
  /\ initialValues = Undef
  /\ formValues = [e \in Editors |-> Undef]
  /\ cfgLoading = FALSE
  /\ validRefs = [e \in Editors |-> TRUE]
  /\ cfgDeps = <<FALSE, Undef>>
  /\ reportedSinceOpen = NoReports
  /\ reportedSinceInit = NoReports
  /\ cfgEvent = CfgEvent("mount", <<>>)

\* The parent shows the modal.
CfgParentOpen ==
  /\ ~cfgOpen
  /\ CfgCommit([CfgView EXCEPT !.open = TRUE], reportedSinceInit)
  /\ reportedSinceOpen' = NoReports
  /\ cfgEvent' = CfgEvent("CfgParentOpen", <<>>)
  /\ UNCHANGED cfgLoading

\* The parent hides the modal (its answer to onCancel, or to onSuccess).
CfgParentClose ==
  /\ cfgOpen
  /\ CfgCommit([CfgView EXCEPT !.open = FALSE], reportedSinceInit)
  /\ cfgEvent' = CfgEvent("CfgParentClose", <<>>)
  /\ UNCHANGED <<cfgLoading, reportedSinceOpen>>

\* The parent renders the modal with other initialValues.
CfgParentSetInitialValues(v) ==
  /\ v # initialValues
  /\ CfgCommit([CfgView EXCEPT !.initialValues = v], reportedSinceInit)
  /\ cfgEvent' = CfgEvent("CfgParentSetInitialValues", <<>>)
  /\ UNCHANGED <<cfgLoading, reportedSinceOpen>>

\* The onChange of the JsonEditor of field e, called with (value, isValid).
EditorChange(e, value, isValid) ==
  /\ cfgOpen
  /\ CfgCommit([CfgView EXCEPT
                  !.validRefs[e] = isValid,
                  !.formValues[e] =
                     IF isValid /\ TypeofObjectNonNull(value) THEN value ELSE @],
               [reportedSinceInit EXCEPT ![e] = IF isValid THEN "valid" ELSE "invalid"])
  /\ reportedSinceOpen' =
       [reportedSinceOpen EXCEPT ![e] = IF isValid THEN "valid" ELSE "invalid"]
  /\ cfgEvent' = CfgEvent("EditorChange", <<>>)
  /\ UNCHANGED cfgLoading

\* The lsp, experimental and otherFields of the result handleSubmit builds.
SubmitResult == [e \in Editors |-> formValues[e]]

\* A slip: handleSubmit without the test of the refs.
HandleSubmit_unchecked(throws) ==
  /\ cfgOpen
  /\ IF throws
     THEN /\ CfgCommit(CfgView, reportedSinceInit)
          /\ cfgEvent' = CfgEvent("HandleSubmit",
                                  << [onSuccess |-> SubmitResult], "console.error" >>)
     ELSE /\ CfgCommit([CfgView EXCEPT !.formValues = [e \in Editors |-> Undef]],
                    reportedSinceInit)
          /\ cfgEvent' = CfgEvent("HandleSubmit",
                                  << [onSuccess |-> SubmitResult], "form.resetFields" >>)
  /\ cfgLoading' = FALSE
  /\ UNCHANGED reportedSinceOpen

\* handleSubmit, with an onSuccess that returns or throws: setLoading(true),
\* the test of the refs, onSuccess(result), form.resetFields(), the catch,
\* and setLoading(false) in the finally.
HandleSubmit(throws) ==
  /\ cfgOpen
  /\ IF \E e \in Editors : ~validRefs[e]
     THEN /\ ~throws
          /\ CfgCommit(CfgView, reportedSinceInit)
          /\ cfgEvent' = CfgEvent("HandleSubmit", <<>>)
     ELSE IF throws
     THEN /\ CfgCommit(CfgView, reportedSinceInit)
          /\ cfgEvent' = CfgEvent("HandleSubmit",
                                  << [onSuccess |-> SubmitResult], "console.error" >>)
     ELSE /\ CfgCommit([CfgView EXCEPT !.formValues = [e \in Editors |-> Undef]],
                    reportedSinceInit)
          /\ cfgEvent' = CfgEvent("HandleSubmit",
                                  << [onSuccess |-> SubmitResult], "form.resetFields" >>)
  /\ cfgLoading' = FALSE
  /\ UNCHANGED reportedSinceOpen

(***************************************************************************)
(* What the environment of the update check may give.                      *)
(***************************************************************************)
NetworkError ==
  Err("TypeError", <<"F", "a", "i", "l", "e", "d", " ", "t", "o", " ", "f",
                     "e", "t", "c", "h">>)
SyntaxError == Err("SyntaxError", <<"J", "S", "O", "N">>)
VersionError == Err("Error", <<"n", "o", " ", "v", "e", "r", "s", "i", "o", "n">>)

StatusTexts ==
  { <<>>, <<"N", "o", "t", " ", "F", "o", "u", "n", "d">>,
    <<"F", "o", "r", "b", "i", "d", "d", "e", "n">> }

Responses ==
  { [ok |-> TRUE, statusText |-> <<"O", "K">>] }
  \cup { [ok |-> FALSE, statusText |-> t] : t \in StatusTexts }

Release(version, notes) == [t |-> "object", version |-> version, notes |-> notes]

VersionFields(versions) ==
  { Undef, Null, NumVal(2) }
  \cup { Str(v) : v \in versions }
  \cup { Str(<<"v">> \o v) : v \in versions }

Releases(versions) ==
  { [t |-> "null"] }
  \cup { Release(v, n) : v \in VersionFields(versions),
                         n \in { Undef, Str(<<"n">>) } }

(***************************************************************************)
(* What the parent and the provider API may give the modal.                *)
(***************************************************************************)
\* Longest model list a fetch returns.
MaxModels == 2

Gpt4 == [id |-> <<"g", "p", "t", "-", "4">>, name |-> Undef,
         ownedBy |-> Str(<<"O", "p", "e", "n", "A", "I">>)]
Gpt5 == [id |-> <<"g", "p", "t", "-", "5">>, name |-> Undef, ownedBy |-> Undef]

SeqsUpTo(S, n) == UNION { [1..k -> S] : k \in 0..n }

ModelLists == SeqsUpTo({Gpt4, Gpt5}, MaxModels)

GoogleProvider ==
  [baseUrl |-> <<"h", "/", "v", "1">>, apiKey |-> Str(<<"K">>),
   sdkType |-> "@ai-sdk/google", existingModelIds |-> << <<"g", "p", "t", "-", "4">> >>]
AnthropicProvider ==
  [baseUrl |-> <<"g", "/">>, apiKey |-> Undef,
   sdkType |-> "@ai-sdk/anthropic", existingModelIds |-> <<>>]
OpenAIProvider ==
  [baseUrl |-> <<"h", "/", "v", "1">>, apiKey |-> Str(<<"K">>),
   sdkType |-> "@ai-sdk/openai-compatible",
   existingModelIds |-> << <<"g", "p", "t", "-", "4">> >>]

ProviderPool == {GoogleProvider, AnthropicProvider, OpenAIProvider}
DefaultProvider == GoogleProvider

Rejections ==
  { [t |-> "Error", message |-> <<"b", "o", "o", "m">>],
    [t |-> "string", s |-> <<"d", "e", "n", "i", "e", "d">>] }

TypedUrls == { <<"u">> }
SearchTexts == { <<>>, <<"5">> }

(***************************************************************************)
(* The steps of the modal, over given providers, model lists, rejections.  *)
(***************************************************************************)
NextModal(providers, lists, rejections) ==
  \/ ParentOpen
  \/ ParentClose
  \/ \E p \in providers : ParentSetProps(p)
  \/ \E t \in {"native", "openai_compat"} : SetApiType(t)
  \/ \E u \in TypedUrls : EditUrl(u)
  \/ ResetUrl
  \/ \E q \in SearchTexts : SetSearchText(q)
  \/ HandleFetch
  \/ \E i \in 1..Len(pending), list \in lists : FetchResolves(i, list)
  \/ \E i \in 1..Len(pending), err \in rejections : FetchFails(i, err)
  \/ CloseErrorAlert
  \/ \E i \in 1..Len(TableRows) : ToggleRow(i)
  \/ HandleConfirm

(***************************************************************************)
(* The modal alone.                                                        *)
(***************************************************************************)
Init == FnIdle /\ UpdInit /\ CfgInit /\ \E p \in ProviderPool : ModalInit(p)

Next ==
  /\ NextModal(ProviderPool, ModelLists, Rejections)
  /\ UNCHANGED <<fnVars, updVars, unhandled, cfgVars>>

Spec == Init /\ [][Next]_vars

(***************************************************************************)
(* The steps of the update check, over given versions, responses, bodies.  *)
(***************************************************************************)
NextUpdate(versions, responses, releases) ==
  \/ InitApp
  \/ \E v \in versions : GetVersionResolves(v)
  \/ GetVersionRejects(VersionError)
  \/ FetchRejects(NetworkError)
  \/ \E r \in responses : FetchResponds(r)
  \/ JsonRejects(SyntaxError)
  \/ \E r \in releases : JsonResolves(r)

(***************************************************************************)
(* The update check alone, over every drawn version.                       *)
(***************************************************************************)
AllReleases == Releases(RemoteVersions)

InitUpd == FnIdle /\ UpdInit /\ ModalInit(DefaultProvider) /\ CfgInit

NextUpd ==
  /\ NextUpdate(CurVersions, Responses, AllReleases)
  /\ UNCHANGED <<fnVars, modalVars, lastEvent, cfgVars>>

SpecUpd == InitUpd /\ [][NextUpd]_vars

(***************************************************************************)
(* The app: the start-up update check beside the modal, over a few inputs. *)
(***************************************************************************)
FewReleases ==
  { Release(Str(<<"2", ".", "0", ".", "0">>), Undef),
    Release(Str(<<"1", ".", "0">>), Undef) }

InitApplication == FnIdle /\ UpdInit /\ ModalInit(DefaultProvider) /\ CfgInit

NextApplication ==
  \/ /\ NextUpdate({ <<"1", ".", "9", ".", "9">> }, Responses, FewReleases)
     /\ UNCHANGED <<fnVars, modalVars, lastEvent, cfgVars>>
  \/ /\ NextModal({GoogleProvider, AnthropicProvider}, { <<>>, <<Gpt5>> }, Rejections)
     /\ UNCHANGED <<fnVars, updVars, unhandled, cfgVars>>

SpecApp == InitApplication /\ [][NextApplication]_vars

(***************************************************************************)
(* The modal with a remote call that settles: invoke's promise is resolved *)
(* or rejected in the end, and the continuation of handleFetch then runs.  *)
(***************************************************************************)
FewLists == { <<>>, <<Gpt5>> }

InvokeSettles ==
  \/ \E i \in 1..Len(pending), list \in FewLists : FetchResolves(i, list)
  \/ \E i \in 1..Len(pending), err \in Rejections : FetchFails(i, err)

NextSettling ==
  /\ NextModal({GoogleProvider, OpenAIProvider}, FewLists, Rejections)
  /\ UNCHANGED <<fnVars, updVars, unhandled, cfgVars>>

InitSettling == FnIdle /\ UpdInit /\ ModalInit(DefaultProvider) /\ CfgInit

SpecSettling ==
  /\ InitSettling
  /\ [][NextSettling]_vars
  /\ WF_vars(InvokeSettles /\ UNCHANGED <<fnVars, updVars, unhandled, cfgVars>>)

(***************************************************************************)
(* The global-config modal alone.                                          *)
(***************************************************************************)
Config(lsp, experimental, otherFields) ==
  [t |-> "config", lsp |-> lsp, experimental |-> experimental,
   otherFields |-> otherFields]

InitialValuesPool ==
  { Undef, Config(JObj("i"), Undef, Undef), Config(Undef, JObj("j"), JObj("i")) }

\* What a JsonEditor may report: <<value, isValid>>.
EditorReports ==
  { <<JObj("a"), TRUE>>, <<JArr, TRUE>>, <<NumVal(1), TRUE>>, <<Null, TRUE>>,
    <<JObj("partial"), FALSE>>, <<Str(<<"{">>), FALSE>> }

InitCfg == FnIdle /\ UpdInit /\ ModalInit(DefaultProvider) /\ CfgInit

NextCfg ==
  /\ \/ CfgParentOpen
     \/ CfgParentClose
     \/ \E v \in InitialValuesPool : CfgParentSetInitialValues(v)
     \/ \E e \in Editors, r \in EditorReports : EditorChange(e, r[1], r[2])
     \/ \E throws \in BOOLEAN : HandleSubmit(throws)
  /\ UNCHANGED <<fnVars, updVars, unhandled, modalVars, lastEvent>>

SpecCfg == InitCfg /\ [][NextCfg]_vars

(***************************************************************************)
(* filteredModels applied to a drawn list and search text.                 *)
(***************************************************************************)
\* Longest model list drawn for the search filter.
MaxFilterModels == 2

FiveModel ==
  [id |-> <<"G", "P", "T", "-", "5">>, name |-> Str(<<"F", "i", "v", "e">>),
   ownedBy |-> Undef]
BlankModel == [id |-> <<"o", "1">>, name |-> Str(<<>>), ownedBy |-> Str(<<>>)]
TurboModel ==
  [id |-> <<"p", "t">>, name |-> Str(<<"4", " ", "T", "u", "r", "b", "o">>),
   ownedBy |-> Str(<<"o", "p", "e", "n">>)]

FilterLists == SeqsUpTo({Gpt4, FiveModel, BlankModel, TurboModel}, MaxFilterModels)

Queries ==
  { <<>>, <<"o", "p", "e", "n", "a", "i">>, <<"O", "P", "E", "N", "A", "I">>,
    <<"O", "p", "e", "n", "A", "I">>, <<"g", "p", "t">>, <<"G", "P", "T", "-", "5">>,
    <<"p", "t">>, <<"P", "T">>, <<"5">>, <<"f", "i", "v", "e">>,
    <<"t", "u", "r", "b", "o">>, <<"4">>, <<"o">>, <<"x">>, <<"-">>,
    <<"t", "-", "4">>, <<"o", "p", "e", "n">>, <<"I">>, <<"1", "o">> }

InitFilter ==
  /\ fnArgs \in { <<list>> : list \in FilterLists }
  /\ fnRet = <<>>
  /\ UpdInit
  /\ ModalInit(DefaultProvider)
  /\ CfgInit

CallFilteredModels(q) ==
  /\ fnRet = <<>>
  /\ Len(fnArgs) = 1
  /\ fnArgs' = <<fnArgs[1], q>>
  /\ fnRet' = <<filteredModels(fnArgs[1], q)>>
  /\ UNCHANGED <<updVars, unhandled, modalVars, lastEvent, cfgVars>>

NextFilter == \E q \in Queries : CallFilteredModels(q)

SpecFilter == InitFilter /\ [][NextFilter]_vars

(***************************************************************************)
(* calculatedUrl applied to a drawn base URL, apiType, sdkType and apiKey. *)
(***************************************************************************)
\* Most path pieces appended to a host to draw a base URL.
MaxUrlParts == 2

RECURSIVE Concat(_)
Concat(pieces) == IF pieces = <<>> THEN <<>> ELSE Head(pieces) \o Concat(Tail(pieces))

Hosts ==
  { <<"h">>,
    <<"h", "t", "t", "p", "s", ":", "/", "/", "a", "p", "i", ".", "x", ".",
      "c", "o", "m">> }

UrlPieces ==
  { <<"/">>, <<"/", "v", "1">>, <<"/", "v", "1", "b", "e", "t", "a">>, <<"/", "x">> }

BaseUrls ==
  { h \o Concat(pieces) : h \in Hosts, pieces \in SeqsUpTo(UrlPieces, MaxUrlParts) }

SdkTypes ==
  { "@ai-sdk/google", "@ai-sdk/anthropic", "@ai-sdk/openai-compatible", "undefined" }

ApiKeys == { Undef, Str(<<>>), Str(<<"K", "E", "Y">>) }

InitUrl ==
  /\ fnArgs \in { <<u>> : u \in BaseUrls }
  /\ fnRet = <<>>
  /\ UpdInit
  /\ ModalInit(DefaultProvider)
  /\ CfgInit

CallCalculatedUrl(type, sdk, key) ==
  /\ fnRet = <<>>
  /\ Len(fnArgs) = 1
  /\ fnArgs' = <<fnArgs[1], type, sdk, key>>
  /\ fnRet' = <<calculatedUrl(fnArgs[1], type, sdk, key)>>
  /\ UNCHANGED <<updVars, unhandled, modalVars, lastEvent, cfgVars>>

NextUrl ==
  \E type \in {"native", "openai_compat"}, sdk \in SdkTypes, key \in ApiKeys :
    CallCalculatedUrl(type, sdk, key)

SpecUrl == InitUrl /\ [][NextUrl]_vars

(***************************************************************************)
(* compareVersions applied to two drawn strings.                           *)
(***************************************************************************)
InitCmp ==
  /\ fnArgs \in { <<a>> : a \in Versions }
  /\ fnRet = <<>>
  /\ UpdInit
  /\ ModalInit(DefaultProvider)
  /\ CfgInit

CallCompareVersions(b) ==
  /\ fnRet = <<>>
  /\ Len(fnArgs) = 1
  /\ fnArgs' = <<fnArgs[1], b>>
  /\ fnRet' = <<compareVersions(fnArgs[1], b)>>
  /\ UNCHANGED <<updVars, unhandled, modalVars, lastEvent, cfgVars>>

NextCmp == \E b \in Versions : CallCompareVersions(b)

SpecCmp == InitCmp /\ [][NextCmp]_vars

(***************************************************************************)
(* compareVersions applied to the pairs of three drawn strings.            *)
(***************************************************************************)
InitOrd ==
  /\ fnArgs \in { <<a>> : a \in OrdVersions }
  /\ fnRet = <<>>
  /\ UpdInit
  /\ ModalInit(DefaultProvider)
  /\ CfgInit

CallCompareThree(b, c) ==
  /\ fnRet = <<>>
  /\ Len(fnArgs) = 1
  /\ fnArgs' = <<fnArgs[1], b, c>>
  /\ fnRet' = << [aa |-> compareVersions(fnArgs[1], fnArgs[1]),
                  ab |-> compareVersions(fnArgs[1], b),
                  ba |-> compareVersions(b, fnArgs[1]),
                  bc |-> compareVersions(b, c),
                  ac |-> compareVersions(fnArgs[1], c)] >>
  /\ UNCHANGED <<updVars, unhandled, modalVars, lastEvent, cfgVars>>

NextOrd == \E b \in OrdVersions, c \in OrdVersions : CallCompareThree(b, c)

SpecOrd == InitOrd /\ [][NextOrd]_vars

(***************************************************************************)
(* The ordering the specification describes, stated on its own: the        *)
(* numeric value of segment i (0 when the segment is missing or is not a   *)
(* number), and the first position where two versions differ.              *)
(***************************************************************************)
SegNum(v, i) ==
  LET segs == Split(v)
  IN IF i <= Len(segs) /\ ~Number(segs[i]).nan THEN Number(segs[i]).val ELSE 0

Positions(a, b) == 1..Max(Len(Split(a)), Len(Split(b)))

DiffersFirstAt(a, b, i) ==
  /\ SegNum(a, i) # SegNum(b, i)
  /\ \A j \in 1..(i - 1) : SegNum(a, j) = SegNum(b, j)

RefGreater(a, b) ==
  \E i \in Positions(a, b) : DiffersFirstAt(a, b, i) /\ SegNum(a, i) > SegNum(b, i)

WithoutLeadingV(s) ==
  IF Len(s) > 0 /\ Head(s) = "v" THEN SubSeq(s, 2, Len(s)) ELSE s

\* The served version as a string: the field when it is a string, else "".
ServedVersion == IF updRelease[1].version.t = "string" THEN updRelease[1].version.s ELSE <<>>

Contains(s, sub) ==
  \E k \in 0..(Len(s) - Len(sub)) : SubSeq(s, k + 1, k + Len(sub)) = sub

Returned == cfuOutcome.kind = "returned"

\* C1: whenever checkForUpdates returns an UpdateInfo, hasUpdate is true
\* exactly when the remote version, its leading 'v' removed, is greater than
\* the current version segment by segment (numerically, missing and
\* non-numeric segments counting 0); remote 2.0.0 over current 1.9.9 is an update.
C1_HasUpdateIffRemoteGreater ==
  Returned =>
    /\ cfuOutcome.info.hasUpdate
         <=> RefGreater(WithoutLeadingV(ServedVersion), currentVersion)
    /\ (ServedVersion = <<"2", ".", "0", ".", "0">>
        /\ currentVersion = <<"1", ".", "9", ".", "9">>)
         => cfuOutcome.info.hasUpdate

C1_Witness ==
  /\ Returned
  /\ ServedVersion = <<"2", ".", "0", ".", "0">>
  /\ currentVersion = <<"1", ".", "9", ".", "9">>
  /\ cfuOutcome.info.hasUpdate

\* C2: compareVersions gives a result for every two strings, in {-1, 0, 1}:
\* the sign of the first differing segment, segments read as numbers
\* (non-numeric as 0) and the shorter version padded with 0s; so
\* "1.2.0" against "1.10.0" is -1 and "1.2" against "1.2.0" is 0.
C2_CompareIsSignOfFirstDifference ==
  fnRet # <<>> =>
    LET a == fnArgs[1]
        b == fnArgs[2]
        r == fnRet[1]
    IN /\ r \in {-1, 0, 1}
       /\ (r = 0) <=> (\A i \in Positions(a, b) : SegNum(a, i) = SegNum(b, i))
       /\ \A i \in Positions(a, b) :
            DiffersFirstAt(a, b, i) =>
              r = (IF SegNum(a, i) > SegNum(b, i) THEN 1 ELSE -1)
       /\ (a = <<"1", ".", "2", ".", "0">> /\ b = <<"1", ".", "1", "0", ".", "0">>)
            => r = -1
       /\ (a = <<"1", ".", "2">> /\ b = <<"1", ".", "2", ".", "0">>) => r = 0

C2_Witness ==
  /\ fnArgs = << <<"1", ".", "2", ".", "0">>, <<"1", ".", "1", "0", ".", "0">> >>
  /\ fnRet = <<-1>>

\* C3: compareVersions orders version strings consistently: a against itself
\* is 0, a against b is the negation of b against a, and a <= b with b <= c
\* gives a <= c.
C3_ConsistentOrdering ==
  fnRet # <<>> =>
    /\ fnRet[1].aa = 0
    /\ fnRet[1].ab = 0 - fnRet[1].ba
    /\ (fnRet[1].ab <= 0 /\ fnRet[1].bc <= 0) => fnRet[1].ac <= 0

\* Three strings in strict order, the middle one with a non-numeric segment.
C3_Witness ==
  /\ fnRet # <<>>
  /\ fnArgs = << <<"0", ".", "2">>, <<"1", ".", "a">>, <<"1", ".", "1">> >>
  /\ fnRet[1].ab = -1 /\ fnRet[1].bc = -1 /\ fnRet[1].ac = -1

NonOkResponse == updResponse # <<>> /\ ~updResponse[1].ok

\* C4: on a non-success response checkForUpdates throws an error whose
\* message includes the status text and returns no UpdateInfo; the body is
\* not parsed, nothing is compared or notified, the caller receives the
\* error, and no second request is made.
C4_NonOkResponseThrows ==
  NonOkResponse =>
    /\ cfuOutcome.kind = "threw"
    /\ Contains(cfuOutcome.error.message, updResponse[1].statusText)
    /\ updRelease = <<>>
    /\ notifications = <<>>
    /\ consoleErrors = <<cfuOutcome.error>>
    /\ updRequests = 1
    /\ updPc = "done"

C4_Witness ==
  /\ NonOkResponse
  /\ updResponse[1].statusText = <<"N", "o", "t", " ", "F", "o", "u", "n", "d">>
  /\ cfuOutcome.kind = "threw"

NonNegativeDottedNumeric(v) ==
  \A i \in 1..Len(Split(v)) : IsDigits(Split(v)[i])

VersionAbsent == updRelease[1].version.t = "undefined"

\* C5: in the returned UpdateInfo latestVersion is the served version field
\* without its leading 'v', or "" when the field is absent; releaseUrl is
\* the release-page pattern around latestVersion; and with the field absent
\* hasUpdate is false for every non-negative dotted-numeric current version.
C5_LatestVersionAndReleaseUrl ==
  Returned =>
    /\ cfuOutcome.info.latestVersion =
         (IF VersionAbsent THEN <<>> ELSE WithoutLeadingV(ServedVersion))
    /\ cfuOutcome.info.releaseUrl =
         GITHUB_URL
         \o <<"/", "r", "e", "l", "e", "a", "s", "e", "s", "/", "t", "a", "g", "/">>
         \o <<"v">> \o cfuOutcome.info.latestVersion
    /\ (VersionAbsent /\ NonNegativeDottedNumeric(currentVersion))
         => ~cfuOutcome.info.hasUpdate

C5_Witness ==
  /\ Returned
  /\ VersionAbsent
  /\ currentVersion = <<"1", ".", "9", ".", "9">>
  /\ cfuOutcome.info.latestVersion = <<>>
  /\ ~cfuOutcome.info.hasUpdate

UpdateCheckFailed == cfuOutcome.kind = "threw"
ModelFetchFailed == lastEvent.name = "FetchFails"

\* What both callers do with an error: it is caught where the call was made,
\* goes no further, and no request follows it.
ErrorsCaughtNoRetry ==
  /\ UpdateCheckFailed =>
       /\ unhandled = <<>>
       /\ updRequests <= 1
       /\ updPc = "done"
  /\ ModelFetchFailed =>
       /\ unhandled = <<>>
       /\ pending = <<>>
       /\ ~loading

ModelFetchErrorShown ==
  ModelFetchFailed =>
    /\ lastEvent.calls = <<"message.error">>
    /\ error.t = "string"
    /\ error.s # <<>>
    /\ error.s = (IF lastEvent.arg.t = "Error" THEN lastEvent.arg.message
                  ELSE lastEvent.arg.s)

\* C6 as stated: every error of the update check and of the model fetch is
\* caught at its caller, shown to the user as a notification, goes no
\* further and is not retried.
C6_ErrorsNotifiedAsStated ==
  /\ ErrorsCaughtNoRetry
  /\ ModelFetchErrorShown
  /\ UpdateCheckFailed => notifications # <<>>

\* C6: every error of the update check and of the model fetch is caught at
\* its caller, goes no further and is not retried; the model-fetch error is
\* shown to the user (toast and error alert), while the update-check error is
\* only written to the console and no notification is shown.
C6_ErrorsCaughtFetchNotifiedUpdateLogged ==
  /\ ErrorsCaughtNoRetry
  /\ ModelFetchErrorShown
  /\ UpdateCheckFailed =>
       /\ notifications = <<>>
       /\ consoleErrors = <<cfuOutcome.error>>

C6_Witness ==
  /\ UpdateCheckFailed
  /\ cfuOutcome.error = NetworkError
  /\ consoleErrors = <<NetworkError>>
  /\ ModelFetchFailed
  /\ error.t = "string"

InExisting(id) == \E j \in 1..Len(existingModelIds) : existingModelIds[j] = id

RowsReconciled ==
  \E rows \in {TableRows} :
    /\ \A i \in 1..Len(rows) :
         /\ rows[i].isExisting <=> InExisting(rows[i].id)
         /\ rows[i].disabled <=> InExisting(rows[i].id)
    /\ searchText = <<>> =>
         /\ Len(rows) = Len(models)
         /\ \A i \in 1..Len(models) : rows[i].id = models[i].id

\* The props are still those of one provider, as the parent passed them.
PropsAsPassed ==
  \E p \in ProviderPool :
    /\ existingModelIds = p.existingModelIds
    /\ baseUrl = p.baseUrl
    /\ apiKey = p.apiKey
    /\ sdkType = p.sdkType

\* C7: every row of the fetched list is marked as existing exactly when its
\* id is in existingModelIds; the list is stored and shown in the order
\* returned, duplicates included; and existingModelIds stays the array the
\* parent passed, whatever the modal does.
C7_ReconcileMarksExisting ==
  /\ RowsReconciled
  /\ lastEvent.name = "FetchResolves" => models = lastEvent.arg
  /\ PropsAsPassed

C7_Witness ==
  /\ lastEvent.name = "FetchResolves"
  /\ existingModelIds = << <<"g", "p", "t", "-", "4">> >>
  /\ models = <<Gpt4, Gpt5>>
  /\ searchText = <<>>
  /\ TableRows = << [id |-> <<"g", "p", "t", "-", "4">>, isExisting |-> TRUE, disabled |-> TRUE],
                    [id |-> <<"g", "p", "t", "-", "5">>, isExisting |-> FALSE, disabled |-> FALSE] >>

CasePairs ==
  { <<"A", "a">>, <<"E", "e">>, <<"F", "f">>, <<"G", "g">>, <<"I", "i">>,
    <<"N", "n">>, <<"O", "o">>, <<"P", "p">>, <<"T", "t">> }

SameLetter(c, d) == c = d \/ <<c, d>> \in CasePairs \/ <<d, c>> \in CasePairs

ContainsIgnoringCase(field, query) ==
  \E k \in 0..(Len(field) - Len(query)) :
    \A j \in 1..Len(query) : SameLetter(field[k + j], query[j])

QueryMatches(m, query) ==
  \/ ContainsIgnoringCase(m.id, query)
  \/ m.name.t = "string" /\ ContainsIgnoringCase(m.name.s, query)
  \/ m.ownedBy.t = "string" /\ ContainsIgnoringCase(m.ownedBy.s, query)

\* f maps the kept positions, in increasing order, onto the result.
IsSublistOfMatches(list, query, result) ==
  LET kept == { i \in 1..Len(list) : QueryMatches(list[i], query) }
  IN /\ Len(result) = Cardinality(kept)
     /\ \A i \in kept :
          result[Cardinality({ j \in kept : j <= i })] = list[i]

\* C8: filteredModels returns exactly the models for which the query is a
\* case-insensitive substring of id, of name when present or of ownedBy when
\* present, in their original order; for the empty query the result is the
\* input list.
C8_SearchFilter ==
  fnRet # <<>> =>
    /\ IsSublistOfMatches(fnArgs[1], fnArgs[2], fnRet[1])
    /\ fnArgs[2] = <<>> => fnRet[1] = fnArgs[1]

C8_Witness ==
  /\ fnRet # <<>>
  /\ fnArgs = << <<Gpt4>>, <<"o", "p", "e", "n", "a", "i">> >>
  /\ fnRet = << <<Gpt4>> >>

V1 == <<"/", "v", "1">>
V1Beta == <<"/", "v", "1", "b", "e", "t", "a">>

SuffixStripped(u) ==
  IF Len(u) >= Len(V1Beta) /\ SubSeq(u, Len(u) - Len(V1Beta) + 1, Len(u)) = V1Beta
    THEN SubSeq(u, 1, Len(u) - Len(V1Beta))
  ELSE IF Len(u) >= Len(V1) /\ SubSeq(u, Len(u) - Len(V1) + 1, Len(u)) = V1
    THEN SubSeq(u, 1, Len(u) - Len(V1))
  ELSE u

WithoutOneTrailingSlash(u) ==
  IF u # <<>> /\ u[Len(u)] = "/" THEN SubSeq(u, 1, Len(u) - 1) ELSE u

KeyPresent(key) == key.t = "string" /\ key.s # <<>>

PolicyUrl(stripped, type, sdk, key) ==
  IF type = "native" /\ sdk = "@ai-sdk/google"
    THEN stripped \o <<"/", "v", "1", "b", "e", "t", "a", "/", "m", "o", "d", "e", "l", "s">>
         \o (IF KeyPresent(key) THEN <<"?", "k", "e", "y", "=">> \o key.s ELSE <<>>)
    ELSE stripped \o <<"/", "v", "1", "/", "m", "o", "d", "e", "l", "s">>

\* C9 as stated: the derived URL is the policy-table URL built on the base
\* URL with only a trailing '/v1' or '/v1beta' stripped.
C9_PolicyOnSuffixStrippedOnly ==
  fnRet # <<>> =>
    fnRet[1] = PolicyUrl(SuffixStripped(fnArgs[1]), fnArgs[2], fnArgs[3], fnArgs[4])

\* C9: the derived URL is the policy-table URL built on the base URL from
\* which first one trailing '/' (if any) and then a trailing '/v1beta' or
\* '/v1' (if any) has been removed: '{stripped}/v1beta/models', plus
\* '?key={apiKey}' for a non-empty apiKey, for native with the Google SDK,
\* and '{stripped}/v1/models' in every other case.
C9_PolicyAfterTrailingSlash ==
  fnRet # <<>> =>
    fnRet[1] = PolicyUrl(SuffixStripped(WithoutOneTrailingSlash(fnArgs[1])),
                         fnArgs[2], fnArgs[3], fnArgs[4])

C9_Witness ==
  /\ fnRet # <<>>
  /\ fnArgs = << <<"h", "t", "t", "p", "s", ":", "/", "/", "a", "p", "i", ".", "x", ".", "c", "o", "m", "/", "v", "1", "/">>, "native", "@ai-sdk/google", Str(<<"K", "E", "Y">>) >>
  /\ fnRet = << <<"h", "t", "t", "p", "s", ":", "/", "/", "a", "p", "i", ".", "x", ".", "c", "o", "m", "/", "v", "1", "b", "e", "t", "a", "/", "m", "o", "d", "e", "l", "s", "?", "k", "e", "y", "=", "K", "E", "Y">> >>

\* C10 as stated: once the user has edited the URL field, the field holds the
\* edited value, and a fetch sends it, until the reset button is pressed or
\* the modal is opened afresh.
C10_EditedUrlKept ==
  (open /\ editedUrl # <<>>) =>
    /\ customUrl = editedUrl[1]
    /\ \A i \in 1..Len(pending) :
         lastEvent.name = "HandleFetch" /\ i = Len(pending)
           => pending[i].customUrl = editedUrl[1]

\* C11: at most one model-fetch request is in flight, the busy flag is set
\* exactly while it is, and the Fetch button does nothing meanwhile (whatever
\* was closed, reopened, switched or typed since); the update check issues at
\* most one request, and only once the app store is initialised.
C11_AtMostOneInFlight ==
  /\ Len(pending) <= 1
  /\ loading <=> pending # <<>>
  /\ pending # <<>> => ~ENABLED HandleFetch
  /\ updRequests <= 1
  /\ updRequests = 1 => appInitialized
  /\ updPc = "fetch" => updRequests = 1

C11_Witness ==
  /\ Len(pending) = 1
  /\ loading
  /\ lastEvent.name = "ParentOpen"
  /\ updPc = "fetch"
  /\ updRequests = 1

ErrorTextOf(err) == IF err.t = "Error" THEN err.message ELSE err.s

\* C12 as stated: after a failed fetch the list, the fetched flag and the
\* selection are what they were when that fetch started.
C12_FailedFetchKeepsStateOfStart ==
  lastEvent.name = "FetchFails" =>
    /\ models = lastFetch[1].models
    /\ fetched = lastFetch[1].fetched
    /\ selectedRowKeys = lastFetch[1].selectedRowKeys
    /\ ~loading
    /\ error = Str(ErrorTextOf(lastEvent.arg))

\* C12: the handling of a failed fetch leaves the list, the fetched flag and
\* the selection as they were just before it; it writes only the error
\* message and clears the busy flag.
C12_FailureWritesOnlyErrorAndBusy ==
  [][ lastEvent'.name = "FetchFails" =>
        /\ models' = models
        /\ fetched' = fetched
        /\ selectedRowKeys' = selectedRowKeys
        /\ apiType' = apiType
        /\ customUrl' = customUrl
        /\ searchText' = searchText
        /\ loading' = FALSE
        /\ error' = Str(ErrorTextOf(lastEvent'.arg))
    ]_vars

C12_Witness ==
  /\ lastEvent.name = "FetchFails"
  /\ fetched
  /\ models = <<Gpt4, Gpt5>>
  /\ selectedRowKeys = { <<"g", "p", "t", "-", "5">> }
  /\ error.t = "string"
  /\ ~loading

UserStepsThatKeepTheList ==
  { "SetApiType", "EditUrl", "ResetUrl", "SetSearchText", "FetchFails",
    "CloseErrorAlert", "HandleFetch" }

\* C13 as stated: each opening of the modal resets the workflow state, and
\* while the modal stays open no switch of API type, URL edit, search or
\* failed fetch changes the fetched list, the fetched flag or the selection.
C13_ResetWhenAndOnlyWhenOpened ==
  [][ /\ (~open /\ open') =>
           /\ models' = <<>>
           /\ selectedRowKeys' = {}
           /\ error' = Null
           /\ ~fetched'
           /\ searchText' = <<>>
           /\ customUrl' = depCalc'
      /\ (open /\ open' /\ lastEvent'.name \in UserStepsThatKeepTheList) =>
           /\ models' = models
           /\ fetched' = fetched
           /\ selectedRowKeys' = selectedRowKeys
    ]_vars

SettledLate ==
  /\ lastEvent.name \in {"FetchResolves", "FetchFails"}
  /\ lastFetch # <<>>
  /\ lastFetch[1].reopened

\* C14 as stated: a fetch that settles after the modal was closed and opened
\* again leaves the new opening with an empty list, the fetched flag false
\* and no error.
C14_LateResponseIgnored ==
  SettledLate =>
    /\ models = <<>>
    /\ ~fetched
    /\ error = Null

ModelIds == { models[i].id : i \in 1..Len(models) }

RECURSIVE IsSubsequence(_, _)
IsSubsequence(a, b) ==
  IF a = <<>> THEN TRUE
  ELSE IF b = <<>> THEN FALSE
  ELSE IF Head(a) = Head(b) THEN IsSubsequence(Tail(a), Tail(b))
  ELSE IsSubsequence(a, Tail(b))

\* C15: while the modal is open every selected id is the id of a model of
\* the held list and is not in existingModelIds; and confirm hands onSuccess
\* a non-empty run of models of that list, in list order, none of which
\* exists already.
C15_SelectionWithinListAndNew ==
  /\ open =>
       \A id \in selectedRowKeys : id \in ModelIds /\ ~InExisting(id)
  /\ lastEvent.name = "HandleConfirm" =>
       \E passed \in {lastEvent.calls[1].onSuccess} :
         /\ passed # <<>>
         /\ IsSubsequence(passed, models)
         /\ \A i \in 1..Len(passed) :
              passed[i].id \in selectedRowKeys /\ ~InExisting(passed[i].id)

C15_Witness ==
  /\ lastEvent.name = "HandleConfirm"
  /\ existingModelIds = << <<"g", "p", "t", "-", "4">> >>
  /\ models = <<Gpt4, Gpt5>>
  /\ lastEvent.calls = << [onSuccess |-> <<Gpt5>>] >>

NativeSdks == { "@ai-sdk/google", "@ai-sdk/anthropic" }

\* C16 as stated: a fetch request carries apiType 'native' only with the
\* Google or the Anthropic SDK as its sdkType, and 'openai_compat' with any
\* other sdkType.
C16_NativeOnlyForNativeSdk ==
  \A i \in 1..Len(pending) :
    /\ pending[i].apiType = "native" => pending[i].sdkType \in NativeSdks
    /\ pending[i].sdkType \notin NativeSdks => pending[i].apiType = "openai_compat"

\* C17: a fetch that has started ends with the busy flag cleared, whether
\* the call succeeds or fails, and the Fetch button of the open modal works
\* again; on success the list is the response, the fetched flag is set and
\* the selection is empty.
C17_FetchEndsAndCanBeRepeated ==
  /\ loading ~> ~loading
  /\ [](lastEvent.name \in {"FetchResolves", "FetchFails"} => ~loading)
  /\ []((open /\ ~loading) => ENABLED HandleFetch)
  /\ [](lastEvent.name = "FetchResolves" =>
          /\ models = lastEvent.arg
          /\ fetched
          /\ selectedRowKeys = {})

C17_Witness ==
  /\ lastEvent.name = "FetchResolves"
  /\ models = <<Gpt5>>
  /\ fetched
  /\ ~loading
  /\ open
  /\ ENABLED HandleFetch

OnSuccessCalled ==
  /\ cfgEvent.name = "HandleSubmit"
  /\ cfgEvent.calls # <<>>

Delivered == cfgEvent.calls[1].onSuccess

\* The reported values a handler must not store: those reported as invalid,
\* and those that are not a non-null value of type object.
NotToBeStored ==
  { r[1] : r \in { q \in EditorReports : ~q[2] \/ q[1].t \notin {"object", "array"} } }

NothingBadStoredOrDelivered ==
  /\ \A e \in Editors : formValues[e] \notin NotToBeStored
  /\ OnSuccessCalled => \A e \in Editors : Delivered[e] \notin NotToBeStored

SubmitGatedBy(reported) ==
  cfgEvent.name = "HandleSubmit" =>
    /\ OnSuccessCalled => \A e \in Editors : reported[e] # "invalid"
    /\ (\E e \in Editors : reported[e] = "invalid") =>
         /\ cfgEvent.calls = <<>>
         /\ ~cfgLoading

====
